---- MODULE Spec2Model ----
(***************************************************************************)
(* The Monte Carlo engine of assignment_4 (monte_carlo/model.py):          *)
(* do_monte_carlo and its helpers, as a state machine.  One call of        *)
(* do_monte_carlo is a path Validating -> Seeding -> (per noise level:     *)
(* GeneratingCovariance -> (per repetition: Sampling -> Injecting ->       *)
(* Estimating) -> Aggregating) -> Concatenating -> Done, or it ends in     *)
(* Failed when an exception leaves the function.  The caller may call the  *)
(* function a second time with the same arguments (Rerun).                 *)
(*                                                                         *)
(* Numbers are integers.  Covariance entries are kept in units of 1/5 so   *)
(* that the 0.2 of the deterministic matrix is exact; coefficient          *)
(* estimates, bias and mean squared deviation are exact rationals          *)
(* <<numerator, denominator>>.                                             *)
(***************************************************************************)
EXTENDS Integers, Sequences, FiniteSets, TLC

(* ---------------------------------------------------------------- bounds *)
MaxLevels == 2
MaxRepetitions == 2
MaxObs == 2

(* ------------------------------------------------------- argument values *)
\* An entry of true_params or mean: a number, or a string-typed entry.
num(v) == [isstr |-> FALSE, val |-> v]
str_entry == [isstr |-> TRUE, val |-> 0]

\* isinstance(i, str) for one entry
isinstance_str(e) == e.isstr

\* A sequence argument (list / numpy array) of entries, or a str in its place.
array(entries) == [isstr |-> FALSE, entries |-> entries]
str_value == [isstr |-> TRUE, entries |-> <<>>]

TrueParamsValues ==
    { <<num(1)>>, <<num(2), num(1)>>, <<str_entry>>, <<num(1), str_entry>> }

\* mean has one entry per parameter (len(mean) = len(true_params)), or is a str.
MeanValues(n) ==
    { array([i \in 1..n |-> num(0)]),
      array([i \in 1..n |-> num(i - 1)]),
      array([i \in 1..n |-> IF i = n THEN str_entry ELSE num(0)]),
      str_value }

SdValues == {-1, 0, 1}

RECURSIVE SeqsUpTo(_, _)
SeqsUpTo(S, n) ==
    IF n = 0 THEN { <<>> }
    ELSE LET shorter == SeqsUpTo(S, n - 1)
         IN  shorter \cup { Append(s, v) : s \in { t \in shorter : Len(t) = n - 1 }, v \in S }

MeasSdsValues == SeqsUpTo(SdValues, MaxLevels)

YSdValues == {-1, 1}

\* ("random",) is the one-element tuple the test suite passes for cov_type.
CovTypeValues == { "deterministic", "random", "('random',)" }

NObsValues == {-1} \cup (0..MaxObs)
NRepetitionsValues == 0..MaxRepetitions

\* A seed: a Python int, None, a list of ints, or a str.
SeedValues ==
    { [kind |-> "int", v |-> -1], [kind |-> "int", v |-> 0],
      [kind |-> "None", v |-> 0], [kind |-> "list", v |-> 2], [kind |-> "str", v |-> 0] }

\* What the operating system's entropy pool may hand to an unseeded generator.
EntropyValues == {3, 4}

(* ------------------------------------------------------------ exceptions *)
NoError == [type |-> "none", msg |-> "", raised_by |-> "none"]
Raise(type, msg, by) == [type |-> type, msg |-> msg, raised_by |-> by]

(* ------------------------------------------------------------ validation *)
_fail_if_parameters_not_numerical(sr) ==
    IF \E i \in DOMAIN sr : isinstance_str(sr[i])
    THEN Raise("TypeError", "Parameter cannot be a string.", "_fail_if_parameters_not_numerical")
    ELSE NoError

_fail_if_meas_sds_negative(sr) ==
    IF \E i \in DOMAIN sr : sr[i] < 0
    THEN Raise("ValueError", "Standard deviation of measurement error cannot be negative.",
               "_fail_if_meas_sds_negative")
    ELSE NoError

_fail_if_y_sd_negative(sr) ==
    IF sr < 0
    THEN Raise("ValueError", "Standard deviation of dependent variable y cannot be negative.",
               "_fail_if_y_sd_negative")
    ELSE NoError

\* hash(seed): ints, str and None are hashable, a list is not.
hash_raises(seed) == seed.kind = "list"

_fail_if_seed_not_hashable(seed) ==
    IF hash_raises(seed)
    THEN Raise("TypeError", "unhashable type: 'list'", "_fail_if_seed_not_hashable")
    ELSE NoError

_fail_if_cov_type_not_valid(str) ==
    IF ~(str = "deterministic" \/ str = "random")
    THEN Raise("ValueError",
               "Invalid cov_type: " \o str \o ". Must be 'random' or 'deterministic'",
               "_fail_if_cov_type_not_valid")
    ELSE NoError

_fail_if_n_non_positive(obs) ==
    IF obs <= 0
    THEN Raise("ValueError",
               "Invalid number of observations: " \o ToString(obs) \o ". Must be a positive integer.",
               "_fail_if_n_non_positive")
    ELSE NoError

_fail_if_mean_string(param) ==
    IF param.isstr
    THEN Raise("TypeError", "Mean cannot be a string.", "_fail_if_mean_string")
    ELSE NoError

\* The checks with the cov_type check moved in front of the meas_sds check.
validation_checks_cov_type_early(tp, ysd, ct, mn, ms, nrep, sd, nobs) ==
    << [arg |-> "true_params",   outcome |-> _fail_if_parameters_not_numerical(tp)],
       [arg |-> "cov_type",      outcome |-> _fail_if_cov_type_not_valid(ct)],
       [arg |-> "meas_sds",      outcome |-> _fail_if_meas_sds_negative(ms)],
       [arg |-> "y_sd",          outcome |-> _fail_if_y_sd_negative(ysd)],
       [arg |-> "seed",          outcome |-> _fail_if_seed_not_hashable(sd)],
       [arg |-> "n_obs",         outcome |-> _fail_if_n_non_positive(nobs)],
       [arg |-> "n_repetitions", outcome |-> _fail_if_n_non_positive(nrep)],
       [arg |-> "mean",          outcome |-> _fail_if_mean_string(mn)] >>

\* The eight checks of do_monte_carlo in the order of its statements, each with
\* the argument it is applied to.
validation_checks(tp, ysd, ct, mn, ms, nrep, sd, nobs) ==
    << [arg |-> "true_params",   outcome |-> _fail_if_parameters_not_numerical(tp)],
       [arg |-> "meas_sds",      outcome |-> _fail_if_meas_sds_negative(ms)],
       [arg |-> "y_sd",          outcome |-> _fail_if_y_sd_negative(ysd)],
       [arg |-> "seed",          outcome |-> _fail_if_seed_not_hashable(sd)],
       [arg |-> "cov_type",      outcome |-> _fail_if_cov_type_not_valid(ct)],
       [arg |-> "n_obs",         outcome |-> _fail_if_n_non_positive(nobs)],
       [arg |-> "n_repetitions", outcome |-> _fail_if_n_non_positive(nrep)],
       [arg |-> "mean",          outcome |-> _fail_if_mean_string(mn)] >>

\* Running the checks one after the other: the first one that raises ends the
\* call; `ran` is the number of checks that were evaluated.
run_checks(checks) ==
    LET raising == { i \in DOMAIN checks : checks[i].outcome # NoError }
    IN  IF raising = {}
        THEN [error |-> NoError, arg |-> "none", ran |-> Len(checks)]
        ELSE LET k == CHOOSE i \in raising : \A j \in raising : i <= j
             IN  [error |-> checks[k].outcome, arg |-> checks[k].arg, ran |-> k]

(* ------------------------------------------------------------ arithmetic *)
RECURSIVE Sum(_)
Sum(s) == IF s = <<>> THEN 0 ELSE Head(s) + Sum(Tail(s))

Dot(u, v) == Sum([i \in DOMAIN u |-> u[i] * v[i]])

Abs(a) == IF a < 0 THEN -a ELSE a

RECURSIVE Gcd(_, _)
Gcd(a, b) == IF b = 0 THEN a ELSE Gcd(b, a % b)

\* The rational n/d (d # 0) in lowest terms with a positive denominator.
Rat(n, d) ==
    LET g == Gcd(Abs(n), Abs(d))
        s == IF d < 0 THEN -1 ELSE 1
    IN  << s * (n \div g), s * (d \div g) >>

RatInt(a) == << a, 1 >>
RatAdd(p, q) == Rat(p[1] * q[2] + q[1] * p[2], p[2] * q[2])
RatSub(p, q) == Rat(p[1] * q[2] - q[1] * p[2], p[2] * q[2])
RatMul(p, q) == Rat(p[1] * q[1], p[2] * q[2])

RECURSIVE RatSum(_)
RatSum(s) == IF s = <<>> THEN RatInt(0) ELSE RatAdd(Head(s), RatSum(Tail(s)))

\* numpy's mean of a sequence of rationals
RatMean(s) == RatMul(RatSum(s), Rat(1, Len(s)))

\* np.sqrt of a rational, kept symbolic
sqrt(q) == [sqrt_of |-> q]

(* ------------------------------------------------- the random generator *)
\* A numpy Generator: the key its seed produced and the number of variates
\* drawn so far.  The stream is a fixed function of the key and the position.
NoRng == [created |-> FALSE, key |-> 0, pos |-> 0]

StreamWord(key, pos) == (key * 31 + pos * 17 + (key + pos) * (key + pos)) % 7

\* One standard-normal variate (never exactly zero, as for a continuous
\* distribution) and one uniform(-1, 1) variate.
standard_normal_at(key, pos) ==
    LET w == StreamWord(key, pos) % 4
    IN  IF w < 2 THEN w - 2 ELSE w - 1
uniform_at(key, pos) == ((StreamWord(key, pos) + 1) % 3) - 1

\* np.random.default_rng(seed): a non-negative int seeds the stream, None takes
\* fresh entropy from the operating system, a list of ints seeds it too; a
\* negative int and a str are refused.
default_rng(sd, entropy) ==
    CASE sd.kind = "int" /\ sd.v >= 0 ->
             [error |-> NoError, rng |-> [created |-> TRUE, key |-> sd.v, pos |-> 0]]
      [] sd.kind = "int" /\ sd.v < 0 ->
             [error |-> Raise("ValueError", "expected non-negative integer", "default_rng"),
              rng |-> NoRng]
      [] sd.kind = "None" ->
             [error |-> NoError, rng |-> [created |-> TRUE, key |-> entropy, pos |-> 0]]
      [] sd.kind = "list" ->
             [error |-> NoError, rng |-> [created |-> TRUE, key |-> sd.v, pos |-> 0]]
      [] OTHER ->
             [error |-> Raise("TypeError", "SeedSequence expects int or sequence of ints",
                              "default_rng"),
              rng |-> NoRng]

advance(g, n) == [g EXCEPT !.pos = @ + n]

\* rng.uniform(low=-1, high=1, size=n): n variates, in stream order
rng_uniform(g, n) == [i \in 1..n |-> uniform_at(g.key, g.pos + i - 1)]

\* rng.normal(loc=0, scale=scale, size=n)
rng_normal(g, scale, n) == [i \in 1..n |-> scale * standard_normal_at(g.key, g.pos + i - 1)]

(* ------------------------------------------------- covariance generator *)
\* Covariance entries are stored in fifths: 1.0 is CovUnit, 0.2 is 1.
CovUnit == 5

eye(n) == [i \in 1..n |-> [j \in 1..n |-> IF i = j THEN 1 ELSE 0]]

\* _generate_cov_matrix: the matrix, the generator after the call, and whether
\* `cov` was bound when the function returned it.
_generate_cov_matrix(ct, n, g) ==
    IF ct = "deterministic"
    THEN [bound |-> TRUE, rng |-> g, drawn |-> 0,
          cov |-> [i \in 1..n |-> [j \in 1..n |-> CovUnit * eye(n)[i][j] + 1]]]
    ELSE IF ct = "random"
    THEN LET u == rng_uniform(g, n * n)
             helper == [i \in 1..n |-> [j \in 1..n |-> u[(i - 1) * n + j]]]
         IN  [bound |-> TRUE, rng |-> advance(g, n * n), drawn |-> n * n,
              cov |-> [i \in 1..n |-> [j \in 1..n |->
                          CovUnit * (Dot(helper[i], helper[j]) + eye(n)[i][j])]]]
    ELSE [bound |-> FALSE, rng |-> g, drawn |-> 0, cov |-> <<>>]

(* ------------------------------------------------------ sample generator *)
\* rng.multivariate_normal(mean, cov, size=n): n * p standard variates are
\* drawn and combined with cov; the factorisation of cov that numpy uses is
\* abstracted by cov itself.  A non-numeric mean makes the call raise.
rng_multivariate_normal(g, mn, cov, n) ==
    LET p == Len(cov)
        z == rng_normal(g, 1, n * p)
    IN  [i \in 1..n |-> [j \in 1..p |->
            mn.entries[j].val
            + (Sum([k \in 1..p |-> z[(i - 1) * p + k] * cov[k][j]]) \div CovUnit)]]

_generate_independent_and_dependent_variables(mn, cov, n, ysd, g, tp) ==
    LET p == Len(cov)
        x == rng_multivariate_normal(g, mn, cov, n)
        g1 == advance(g, n * p)
        epsilon == rng_normal(g1, ysd, n)
        g2 == advance(g1, n)
        beta == [j \in 1..p |-> tp[j].val]
        y == [i \in 1..n |-> Dot(x[i], beta) + epsilon[i]]
    IN  IF \E j \in DOMAIN mn.entries : isinstance_str(mn.entries[j])
        THEN [error |-> Raise("TypeError", "mean is not numeric", "multivariate_normal"),
              x |-> <<>>, y |-> <<>>, epsilon |-> <<>>, rng |-> g1]
        ELSE [error |-> NoError, x |-> x, y |-> y, epsilon |-> epsilon, rng |-> g2]

(* ------------------------------------------------ measurement-error step *)
\* The measurement error added to every column instead of column 0.
_generate_measurement_error_every_column(x, meas_sd, n, g) ==
    LET meas_error == rng_normal(g, meas_sd, n)
    IN  [x |-> [i \in DOMAIN x |-> [j \in DOMAIN x[i] |-> x[i][j] + meas_error[i]]],
         meas_error |-> meas_error,
         rng |-> advance(g, n)]

\* x[:, 0] += meas_error: column 0 of every row, in place.
_generate_measurement_error(x, meas_sd, n, g) ==
    LET meas_error == rng_normal(g, meas_sd, n)
    IN  [x |-> [i \in DOMAIN x |-> [x[i] EXCEPT ![1] = @ + meas_error[i]]],
         meas_error |-> meas_error,
         rng |-> advance(g, n)]

(* -------------------------------------------------------------- estimator *)
column(x, j) == [i \in DOMAIN x |-> x[i][j]]

\* v - mean(v), scaled by len(v) to stay in the integers
centred(v) == [i \in DOMAIN v |-> Len(v) * v[i] - Sum(v)]

\* The minimum-norm least-squares solution of A b = d for a matrix of one or
\* two columns (given as its columns), as scipy.linalg.lstsq returns it.
lstsq(cols, d) ==
    IF Len(cols) = 1
    THEN LET aa == Dot(cols[1], cols[1])
         IN  << IF aa = 0 THEN RatInt(0) ELSE Rat(Dot(cols[1], d), aa) >>
    ELSE LET a == cols[1]
             b == cols[2]
             aa == Dot(a, a)
             ab == Dot(a, b)
             bb == Dot(b, b)
             ad == Dot(a, d)
             bd == Dot(b, d)
             det == aa * bb - ab * ab
         IN  IF det # 0
             THEN << Rat(bb * ad - ab * bd, det), Rat(aa * bd - ab * ad, det) >>
             ELSE IF aa + bb # 0
             THEN << Rat(ad, aa + bb), Rat(bd, aa + bb) >>
             ELSE << RatInt(0), RatInt(0) >>

\* The fit with fit_intercept=False: the columns of x and y as they are.
LinearRegression_fit_coef_no_intercept(x, y) ==
    LET p == Len(x[1])
    IN  lstsq([j \in 1..p |-> column(x, j)], y)

\* LinearRegression().fit(x, y).coef_ : scikit-learn's default fit_intercept=True
\* centres the columns of x and y before solving.
LinearRegression_fit_coef(x, y) ==
    LET p == Len(x[1])
    IN  lstsq([j \in 1..p |-> centred(column(x, j))], centred(y))

(* -------------------------------------------------------------- aggregator *)
\* names = [f"x_{i}" for i in range(len(true_params))]
parameter_names(tp) == [j \in 1..Len(tp) |-> "x_" \o ToString(j - 1)]

\* The DataFrame of one noise level: one row per parameter.
aggregate(estimates, tp, names, meas_sd) ==
    LET deviations == [r \in DOMAIN estimates |-> [j \in DOMAIN tp |->
                          RatSub(estimates[r][j], RatInt(tp[j].val))]]
        bias(j) == RatMean([r \in DOMAIN deviations |-> deviations[r][j]])
        mse(j)  == RatMean([r \in DOMAIN deviations |->
                               RatMul(deviations[r][j], deviations[r][j])])
    IN  [j \in DOMAIN names |->
            [name |-> names[j], bias |-> bias(j), rmse |-> sqrt(mse(j)), meas_sd |-> meas_sd]]

\* The DataFrames joined last noise level first.
RECURSIVE concat_reversed(_)
concat_reversed(dfs) == IF dfs = <<>> THEN <<>> ELSE concat_reversed(Tail(dfs)) \o Head(dfs)

RECURSIVE concat(_)
concat(dfs) == IF dfs = <<>> THEN <<>> ELSE Head(dfs) \o concat(Tail(dfs))

(* ------------------------------------------------------------------ state *)
VARIABLES
    true_params, y_sd, cov_type, mean, meas_sds, n_repetitions, seed, n_obs,
    pc,          \* the step do_monte_carlo executes next, or Done / Failed
    call,        \* 1 in the first call, 2 in the second call with the same arguments
    error,       \* the exception that left the function, NoError otherwise
    stage,       \* the step in which `error` was raised
    checks_ran,  \* how many validation checks were evaluated
    rng, names, to_concat,
    level,       \* index into meas_sds of the noise level being processed
    cov, estimates,
    rep,         \* repetitions completed in the current noise level
    x, y, epsilon, meas_error,
    clean_x,     \* the design matrix as the sample generator returned it
    sampled_under, \* the noise level, covariance matrix and meas_sd of the current trial
    origin,      \* for each entry of estimates, the sampled_under of its trial
    fitted,      \* the arguments and result of the last LinearRegression().fit
    result,      \* what the call returned
    draws,       \* the requests made to the generator in this call, in order
    n_cov, n_trials, \* covariance generations and completed trials in this call
    first        \* the outcome of the first call, once the second has begun

args == << true_params, y_sd, cov_type, mean, meas_sds, n_repetitions, seed, n_obs >>
locals == << rng, names, to_concat, level, cov, estimates, origin, rep, x, y, epsilon,
            meas_error >>
trial == << x, y, epsilon, meas_error, clean_x, sampled_under >>
outcome == << error, stage, result >>
vars == << args, pc, call, error, stage, checks_ran, rng, names, to_concat, level, cov,
           estimates, origin, rep, x, y, epsilon, meas_error, clean_x, sampled_under,
           fitted, result, draws, n_cov, n_trials, first >>

NoResult == [returned |-> FALSE, rows |-> <<>>]
NoTrial == [level |-> 0, cov |-> <<>>, injected |-> FALSE, meas_sd |-> 0]
NoFit == [done |-> FALSE, x |-> <<>>, y |-> <<>>, coef |-> <<>>]
NoFirst == [pc |-> "none", error |-> NoError, stage |-> "none", result |-> NoResult,
            draws |-> <<>>]

\* The state at the entry of a call of do_monte_carlo.
Entry ==
    /\ pc = "Validating"
    /\ error = NoError /\ stage = "none" /\ checks_ran = 0
    /\ rng = NoRng /\ names = <<>> /\ to_concat = <<>> /\ level = 0
    /\ cov = <<>> /\ estimates = <<>> /\ origin = <<>> /\ rep = 0
    /\ x = <<>> /\ y = <<>> /\ epsilon = <<>> /\ meas_error = <<>> /\ clean_x = <<>>
    /\ sampled_under = NoTrial
    /\ fitted = NoFit /\ result = NoResult /\ draws = <<>>
    /\ n_cov = 0 /\ n_trials = 0

Init ==
    /\ true_params \in TrueParamsValues
    /\ mean \in MeanValues(Len(true_params))
    /\ meas_sds \in MeasSdsValues
    /\ y_sd \in YSdValues
    /\ cov_type \in CovTypeValues
    /\ n_repetitions \in NRepetitionsValues
    /\ n_obs \in NObsValues
    /\ seed \in SeedValues
    /\ call = 1
    /\ first = NoFirst
    /\ Entry

\* An exception leaves do_monte_carlo: nothing is returned.
Fails(e, where) ==
    /\ pc' = "Failed"
    /\ error' = e
    /\ stage' = where
    /\ result' = NoResult

\* The loop heads: what follows the end of a repetition, of a noise level.
after_seeding(ms) == IF Len(ms) > 0 THEN "GeneratingCovariance" ELSE "Concatenating"
after_covariance(nrep) == IF nrep > 0 THEN "Sampling" ELSE "Aggregating"
after_estimate(done, nrep) == IF done < nrep THEN "Sampling" ELSE "Aggregating"
after_aggregate(k, ms) == IF k < Len(ms) THEN "GeneratingCovariance" ELSE "Concatenating"

(* ---------------------------------------------------------------- actions *)
\* model.py 41-48: the eight checks.
Validate ==
    /\ pc = "Validating"
    /\ LET v == run_checks(validation_checks(true_params, y_sd, cov_type, mean, meas_sds,
                                             n_repetitions, seed, n_obs))
       IN  /\ checks_ran' = v.ran
           /\ IF v.error # NoError
              THEN Fails(v.error, "Validating")
              ELSE pc' = "Seeding" /\ UNCHANGED outcome
    /\ UNCHANGED << args, call, locals, clean_x, sampled_under, fitted, draws, n_cov,
                    n_trials, first >>

\* model.py 50-55: the generator, n_params, names, to_concat.
Seed ==
    /\ pc = "Seeding"
    /\ \E entropy \in EntropyValues :
         LET g == default_rng(seed, IF seed.kind = "None" THEN entropy ELSE 0)
         IN  IF g.error # NoError
             THEN /\ Fails(g.error, "Seeding")
                  /\ UNCHANGED << rng, names, to_concat >>
             ELSE /\ rng' = g.rng
                  /\ names' = parameter_names(true_params)
                  /\ to_concat' = <<>>
                  /\ pc' = after_seeding(meas_sds)
                  /\ UNCHANGED outcome
    /\ UNCHANGED << args, call, checks_ran, level, cov, estimates, origin, rep, trial,
                    fitted, draws, n_cov, n_trials, first >>

\* The outer loop with estimates = [] hoisted out of it: the list keeps the
\* vectors of the noise levels before.
GenerateCovariance_keeping_estimates ==
    /\ pc = "GeneratingCovariance"
    /\ LET c == _generate_cov_matrix(cov_type, Len(true_params), rng)
       IN  IF ~c.bound
           THEN /\ Fails(Raise("UnboundLocalError", "cov", "_generate_cov_matrix"),
                         "GeneratingCovariance")
                /\ UNCHANGED << rng, level, cov, rep, draws, n_cov >>
           ELSE /\ level' = level + 1
                /\ cov' = c.cov
                /\ rng' = c.rng
                /\ draws' = IF c.drawn > 0 THEN Append(draws, << "uniform", c.drawn >>)
                                           ELSE draws
                /\ rep' = 0
                /\ n_cov' = n_cov + 1
                /\ pc' = after_covariance(n_repetitions)
                /\ UNCHANGED outcome
    /\ UNCHANGED << args, call, checks_ran, names, to_concat, estimates, origin, trial,
                    fitted, n_trials, first >>

\* model.py 56-59: the next noise level, its covariance matrix, estimates = [].
GenerateCovariance ==
    /\ pc = "GeneratingCovariance"
    /\ LET c == _generate_cov_matrix(cov_type, Len(true_params), rng)
       IN  IF ~c.bound
           THEN /\ Fails(Raise("UnboundLocalError", "cov", "_generate_cov_matrix"),
                         "GeneratingCovariance")
                /\ UNCHANGED << rng, level, cov, estimates, origin, rep, draws, n_cov >>
           ELSE /\ level' = level + 1
                /\ cov' = c.cov
                /\ rng' = c.rng
                /\ draws' = IF c.drawn > 0 THEN Append(draws, << "uniform", c.drawn >>)
                                           ELSE draws
                /\ estimates' = <<>>
                /\ origin' = <<>>
                /\ rep' = 0
                /\ n_cov' = n_cov + 1
                /\ pc' = after_covariance(n_repetitions)
                /\ UNCHANGED outcome
    /\ UNCHANGED << args, call, checks_ran, names, to_concat, trial, fitted, n_trials, first >>

\* model.py 61-68: one clean sample X, y.
Sample ==
    /\ pc = "Sampling"
    /\ LET s == _generate_independent_and_dependent_variables(
                    mean, cov, n_obs, y_sd, rng, true_params)
       IN  /\ rng' = s.rng
           /\ IF s.error # NoError
              THEN /\ Fails(s.error, "Sampling")
                   /\ draws' = Append(draws, << "multivariate_normal", n_obs * Len(cov) >>)
                   /\ UNCHANGED trial
              ELSE /\ x' = s.x
                   /\ y' = s.y
                   /\ epsilon' = s.epsilon
                   /\ clean_x' = s.x
                   /\ sampled_under' = [level |-> level, cov |-> cov, injected |-> FALSE,
                                        meas_sd |-> 0]
                   /\ draws' = draws \o << << "multivariate_normal", n_obs * Len(cov) >>,
                                           << "normal", n_obs >> >>
                   /\ pc' = "Injecting"
                   /\ UNCHANGED << outcome, meas_error >>
    /\ UNCHANGED << args, call, checks_ran, names, to_concat, level, cov, estimates,
                    origin, rep, fitted, n_cov, n_trials, first >>

\* The injector step with y computed again from the corrupted x.
Inject_recomputing_y ==
    /\ pc = "Injecting"
    /\ LET m == _generate_measurement_error(x, meas_sds[level], n_obs, rng)
       IN  /\ x' = m.x
           /\ meas_error' = m.meas_error
           /\ rng' = m.rng
           /\ y' = [i \in DOMAIN m.x |->
                      Dot(m.x[i], [j \in DOMAIN true_params |-> true_params[j].val])
                      + epsilon[i]]
    /\ sampled_under' = [sampled_under EXCEPT !.injected = TRUE, !.meas_sd = meas_sds[level]]
    /\ draws' = Append(draws, << "normal", n_obs >>)
    /\ pc' = "Estimating"
    /\ UNCHANGED << args, call, outcome, checks_ran, names, to_concat, level, cov,
                    estimates, origin, rep, epsilon, clean_x, fitted, n_cov, n_trials,
                    first >>

\* model.py 69: the measurement error, added to x in place.
Inject ==
    /\ pc = "Injecting"
    /\ LET m == _generate_measurement_error(x, meas_sds[level], n_obs, rng)
       IN  /\ x' = m.x
           /\ meas_error' = m.meas_error
           /\ rng' = m.rng
    /\ sampled_under' = [sampled_under EXCEPT !.injected = TRUE, !.meas_sd = meas_sds[level]]
    /\ draws' = Append(draws, << "normal", n_obs >>)
    /\ pc' = "Estimating"
    /\ UNCHANGED << args, call, outcome, checks_ran, names, to_concat, level, cov,
                    estimates, origin, rep, y, epsilon, clean_x, fitted, n_cov, n_trials,
                    first >>

\* model.py 70-72: the fit on (x, y); its coefficients join the estimates.
Estimate ==
    /\ pc = "Estimating"
    /\ LET params == LinearRegression_fit_coef(x, y)
       IN  /\ fitted' = [done |-> TRUE, x |-> x, y |-> y, coef |-> params]
           /\ estimates' = Append(estimates, params)
           /\ origin' = Append(origin, sampled_under)
    /\ rep' = rep + 1
    /\ n_trials' = n_trials + 1
    /\ pc' = after_estimate(rep + 1, n_repetitions)
    /\ UNCHANGED << args, call, outcome, checks_ran, rng, names, to_concat, level, cov,
                    trial, draws, n_cov, first >>

\* model.py 76-82: the DataFrame of the noise level joins to_concat.
Aggregate ==
    /\ pc = "Aggregating"
    /\ to_concat' = Append(to_concat,
                           aggregate(estimates, true_params, names, meas_sds[level]))
    /\ pc' = after_aggregate(level, meas_sds)
    /\ UNCHANGED << args, call, outcome, checks_ran, rng, names, level, cov, estimates,
                    origin, rep, trial, fitted, draws, n_cov, n_trials, first >>

\* model.py 85: pd.concat(to_concat), which raises on an empty list.
Concatenate ==
    /\ pc = "Concatenating"
    /\ IF to_concat = <<>>
       THEN Fails(Raise("ValueError", "No objects to concatenate", "concat"), "Concatenating")
       ELSE /\ result' = [returned |-> TRUE, rows |-> concat(to_concat)]
            /\ pc' = "Done"
            /\ UNCHANGED << error, stage >>
    /\ UNCHANGED << args, call, checks_ran, locals, clean_x, sampled_under, fitted, draws,
                    n_cov, n_trials, first >>

\* The caller calls do_monte_carlo again with the same arguments.
Rerun ==
    /\ pc \in {"Done", "Failed"}
    /\ call = 1
    /\ call' = 2
    /\ first' = [pc |-> pc, error |-> error, stage |-> stage, result |-> result,
                 draws |-> draws]
    /\ pc' = "Validating"
    /\ error' = NoError /\ stage' = "none" /\ checks_ran' = 0
    /\ rng' = NoRng /\ names' = <<>> /\ to_concat' = <<>> /\ level' = 0
    /\ cov' = <<>> /\ estimates' = <<>> /\ origin' = <<>> /\ rep' = 0
    /\ x' = <<>> /\ y' = <<>> /\ epsilon' = <<>> /\ meas_error' = <<>> /\ clean_x' = <<>>
    /\ sampled_under' = NoTrial
    /\ fitted' = NoFit /\ result' = NoResult /\ draws' = <<>>
    /\ n_cov' = 0 /\ n_trials' = 0
    /\ UNCHANGED args

Next ==
    \/ Validate
    \/ Seed
    \/ GenerateCovariance
    \/ Sample
    \/ Inject
    \/ Estimate
    \/ Aggregate
    \/ Concatenate
    \/ Rerun

Spec == Init /\ [][Next]_vars

(* ================================================================ claims *)
Ended == pc \in {"Done", "Failed"}
Validated == pc # "Validating"
FailedInValidation == pc = "Failed" /\ stage = "Validating"
PassedValidation == Validated /\ ~FailedInValidation

\* What the specification calls a violation of each check, in the order it
\* lists them, and the helper that reports it.
Violations ==
    << \E i \in DOMAIN true_params : true_params[i].isstr,
       \E i \in DOMAIN meas_sds : meas_sds[i] < 0,
       y_sd < 0,
       hash_raises(seed),
       cov_type \notin {"random", "deterministic"},
       n_obs <= 0,
       n_repetitions <= 0,
       mean.isstr >>

Reporter ==
    << "_fail_if_parameters_not_numerical", "_fail_if_meas_sds_negative",
       "_fail_if_y_sd_negative", "_fail_if_seed_not_hashable",
       "_fail_if_cov_type_not_valid", "_fail_if_n_non_positive",
       "_fail_if_n_non_positive", "_fail_if_mean_string" >>

Violated == { i \in DOMAIN Violations : Violations[i] }
FirstViolated == CHOOSE i \in Violated : \A j \in Violated : i <= j

\* C1: once validation has ended, a config that violates one or more checks has
\* failed with the error of the first violated check in the order true_params,
\* meas_sds, y_sd, seed, cov_type, n_obs, n_repetitions, mean, and no later check
\* was evaluated; in particular a negative meas_sds entry together with an
\* invalid cov_type gives ValueError("Standard deviation of measurement error
\* cannot be negative.").  A config that violates none passes all eight checks.
C1_FirstViolationReported ==
    Validated =>
        IF Violated = {}
        THEN PassedValidation /\ checks_ran = 8
        ELSE /\ FailedInValidation
             /\ checks_ran = FirstViolated
             /\ error.raised_by = Reporter[FirstViolated]
             /\ (FirstViolated = 2 /\ 5 \in Violated) =>
                   /\ error.type = "ValueError"
                   /\ error.msg = "Standard deviation of measurement error cannot be negative."

\* The test suite's case: meas_sds = [-1, ...] with cov_type = ("random",).
C1_Witness ==
    /\ FailedInValidation
    /\ {2, 5} \subseteq Violated
    /\ 1 \notin Violated
    /\ cov_type = "('random',)"
    /\ error.msg = "Standard deviation of measurement error cannot be negative."

\* A config whose seed seeds the stream and whose mean entries are numbers.
SeededNumeric ==
    /\ seed.kind = "int" /\ seed.v >= 0
    /\ ~mean.isstr
    /\ \A j \in DOMAIN mean.entries : ~mean.entries[j].isstr

\* C2: a call that ends in an error failed during validation: the generator was
\* not created, nothing was drawn, no covariance matrix, sample or estimate was
\* produced, and nothing is returned.  Stated for the configs whose seed is a
\* non-negative int and whose sweep is not empty, where the errors left are
\* those of the types and ranges of the arguments.
C2_FailureOnlyInValidation ==
    (pc = "Failed" /\ seed.kind = "int" /\ seed.v >= 0 /\ Len(meas_sds) > 0) =>
        /\ stage = "Validating"
        /\ rng = NoRng /\ draws = <<>>
        /\ n_cov = 0 /\ cov = <<>>
        /\ x = <<>> /\ y = <<>> /\ estimates = <<>>
        /\ ~result.returned

\* C3: a config that passes validation returns a table of exactly
\* len(meas_sds) * n_params rows.  Stated here for the configs whose seed is a
\* non-negative int and whose mean is numeric, so that the only thing left to
\* vary is the sweep itself (its length, n_repetitions, n_obs).
C3_RowCount ==
    (Ended /\ PassedValidation /\ SeededNumeric) =>
        /\ result.returned
        /\ Len(result.rows) = Len(meas_sds) * Len(true_params)

\* C4: the second of two calls with the same arguments ends as the first did,
\* after the same sequence of requests to the generator and with the same table.
C4_Deterministic ==
    (call = 2 /\ Ended) =>
        /\ pc = first.pc
        /\ draws = first.draws
        /\ result = first.result

\* (C4, for reference) the same, for the configs whose seed is an int.
C4_DeterministicWhenSeeded ==
    (call = 2 /\ Ended /\ seed.kind = "int") =>
        /\ pc = first.pc
        /\ draws = first.draws
        /\ result = first.result

\* C5 (as stated): the injector changes column 0 of X and leaves every other
\* column identical, for every meas_sd >= 0.
C5_Column0Changed ==
    pc = "Estimating" =>
        /\ column(x, 1) # column(clean_x, 1)
        /\ \A i \in DOMAIN x : \A j \in 2..Len(x[i]) : x[i][j] = clean_x[i][j]

\* C5 (amended): the injector adds the drawn error to column 0 and leaves every
\* other column identical; an entry of column 0 changes exactly when its drawn
\* error is non-zero, and with meas_sd = 0 the output equals the input.
C5_OnlyColumn0Perturbed ==
    pc = "Estimating" =>
        /\ Len(x) = Len(clean_x)
        /\ \A i \in DOMAIN x :
              /\ Len(x[i]) = Len(clean_x[i])
              /\ x[i][1] = clean_x[i][1] + meas_error[i]
              /\ (x[i][1] # clean_x[i][1]) <=> (meas_error[i] # 0)
              /\ \A j \in 2..Len(x[i]) : x[i][j] = clean_x[i][j]
        /\ meas_sds[level] = 0 => x = clean_x

\* The injector has run with meas_sd = 0 on a two-column X and changed nothing.
C5_Witness ==
    /\ pc = "Estimating"
    /\ meas_sds[level] = 0
    /\ Len(true_params) = 2
    /\ n_obs = 2
    /\ x = clean_x

\* The response the sample generator computes from the clean design matrix.
clean_y ==
    [i \in DOMAIN clean_x |->
        Dot(clean_x[i], [j \in DOMAIN true_params |-> true_params[j].val]) + epsilon[i]]

\* The response the corrupted design matrix would give.
corrupted_y ==
    [i \in DOMAIN x |->
        Dot(x[i], [j \in DOMAIN true_params |-> true_params[j].val]) + epsilon[i]]

\* The clean design matrix with the drawn measurement error in column 0.
corrupted_x ==
    [i \in DOMAIN clean_x |-> [clean_x[i] EXCEPT ![1] = @ + meas_error[i]]]

JustFitted == fitted.done /\ pc \notin {"Validating", "Seeding", "Injecting", "Estimating", "Failed"}
             /\ level > 0 /\ rep > 0

\* C6: in every repetition y is the response of the clean X: the injector leaves
\* it as the sample generator computed it, and the estimator is fitted on the
\* corrupted X against that y.
C6_ResponseFromCleanX ==
    /\ pc \in {"Injecting", "Estimating"} => y = clean_y
    /\ JustFitted =>
          /\ fitted.y = clean_y
          /\ fitted.x = corrupted_x
          /\ estimates[Len(estimates)] = fitted.coef

\* A fit whose corrupted X differs from the clean X, and for which recomputing
\* y from the corrupted X would have given another response.
C6_Witness ==
    /\ JustFitted
    /\ fitted.x # clean_x
    /\ fitted.y = clean_y
    /\ corrupted_y # clean_y

\* C7: in a returned table the row at position k * n_params + i (counted from
\* 0) has name "x_i" and the meas_sd of noise level k.
C7_RowOrder ==
    result.returned =>
        LET p == Len(true_params)
        IN  /\ Len(result.rows) = Len(meas_sds) * p
            /\ \A k \in 0..(Len(meas_sds) - 1) : \A i \in 0..(p - 1) :
                  /\ result.rows[k * p + i + 1].name = "x_" \o ToString(i)
                  /\ result.rows[k * p + i + 1].meas_sd = meas_sds[k + 1]

\* A returned table of two noise levels with different meas_sd and two parameters.
C7_Witness ==
    /\ result.returned
    /\ Len(meas_sds) = 2 /\ meas_sds[1] # meas_sds[2]
    /\ Len(true_params) = 2
    /\ Len(result.rows) = 4

\* C8: a valid config always reaches Done, after exactly
\* len(meas_sds) * n_repetitions trials and len(meas_sds) covariance
\* generations.  Stated for the configs whose seed is a non-negative int and
\* whose mean is numeric: the call never ends in Failed, and it ends with these
\* counts.
C8_ReachesDone ==
    (PassedValidation /\ SeededNumeric) =>
        /\ pc # "Failed"
        /\ pc = "Done" =>
              /\ n_trials = Len(meas_sds) * n_repetitions
              /\ n_cov = Len(meas_sds)

\* (C8, for reference) what does hold of every call: the steps follow one
\* another in the order of the state machine, and a call that reaches Done has
\* made exactly these numbers of trials and covariance generations.
C8_CountsAtDone ==
    pc = "Done" =>
        /\ n_trials = Len(meas_sds) * n_repetitions
        /\ n_cov = Len(meas_sds)

StepAllowed ==
    << pc, pc' >> \in
        { << "Validating", "Seeding" >>, << "Validating", "Failed" >>,
          << "Seeding", "GeneratingCovariance" >>, << "Seeding", "Concatenating" >>,
          << "Seeding", "Failed" >>,
          << "GeneratingCovariance", "Sampling" >>,
          << "Sampling", "Injecting" >>, << "Sampling", "Failed" >>,
          << "Injecting", "Estimating" >>,
          << "Estimating", "Sampling" >>, << "Estimating", "Aggregating" >>,
          << "Aggregating", "GeneratingCovariance" >>, << "Aggregating", "Concatenating" >>,
          << "Concatenating", "Done" >>, << "Concatenating", "Failed" >>,
          << "Done", "Validating" >>, << "Failed", "Validating" >> }

C8_StepOrder == [][StepAllowed]_vars

Contains(s, t) == \E i \in 1..(Len(s) - Len(t) + 1) : SubSeq(s, i, i + Len(t) - 1) = t

\* C9: the error for n_obs <= 0 cites the value and the number of observations,
\* the error for n_repetitions <= 0 cites the value and the number of
\* repetitions.
C9_MessageNamesField ==
    FailedInValidation =>
        /\ checks_ran = 6 =>
              /\ error.type = "ValueError"
              /\ Contains(error.msg, ToString(n_obs))
              /\ Contains(error.msg, "observations")
        /\ checks_ran = 7 =>
              /\ error.type = "ValueError"
              /\ Contains(error.msg, ToString(n_repetitions))
              /\ Contains(error.msg, "repetitions")

StringInMean == mean.isstr \/ \E j \in DOMAIN mean.entries : mean.entries[j].isstr

\* C10: a config whose mean is a string or holds a string-typed entry, and that
\* violates no earlier check, fails in validation with TypeError("Mean cannot be
\* a string."); no call gets past validation with a string in mean.
C10_StringMeanRejected ==
    /\ (Validated /\ StringInMean /\ Violated \cap (1..7) = {}) =>
          /\ FailedInValidation
          /\ error.type = "TypeError"
          /\ error.msg = "Mean cannot be a string."
    /\ PassedValidation => ~StringInMean

\* A seed can seed the stream deterministically when the constructor accepts it
\* and the generator it gives does not depend on anything but the seed.
SeedsDeterministically(sd) ==
    /\ \A e \in EntropyValues : default_rng(sd, e).error = NoError
    /\ \A e1, e2 \in EntropyValues : default_rng(sd, e1).rng = default_rng(sd, e2).rng

SeedCheckRaised == FailedInValidation /\ checks_ran = 4

\* C11: when validation gets as far as the seed check, that check raises
\* exactly when the seed cannot deterministically seed the stream: a seed that
\* passes is accepted by the constructor, and a seed the constructor accepts
\* passes.
C11_SeedCheckExact ==
    (Validated /\ checks_ran >= 4) =>
        (SeedCheckRaised <=> ~SeedsDeterministically(seed))

\* The fitted value b . row for rational coefficients b and an integer row.
Fitted(b, row) == RatSum([j \in DOMAIN b |-> RatMul(b[j], RatInt(row[j]))])

\* The residuals y - a - X b are orthogonal to every column of X.
OrthogonalToColumns(xs, ys, a, b) ==
    \A k \in DOMAIN b :
        RatSum([i \in DOMAIN xs |->
                   RatMul(RatSub(RatSub(RatInt(ys[i]), a), Fitted(b, xs[i])),
                          RatInt(xs[i][k]))]) = RatInt(0)

\* The residuals y - a - X b sum to zero (are orthogonal to a constant column).
OrthogonalToConstant(xs, ys, a, b) ==
    RatSum([i \in DOMAIN xs |-> RatSub(RatSub(RatInt(ys[i]), a), Fitted(b, xs[i]))])
        = RatInt(0)

\* b solves the normal equations of the regression of y on X alone.
LeastSquaresWithoutIntercept(xs, ys, b) ==
    /\ Len(b) = Len(xs[1])
    /\ OrthogonalToColumns(xs, ys, RatInt(0), b)

\* b, with the intercept mean(y) - mean(X) b, solves the normal equations of
\* the regression of y on X and a constant column.
InterceptOf(xs, ys, b) ==
    RatMul(RatSub(RatInt(Sum(ys)),
                  RatSum([j \in DOMAIN b |-> RatMul(b[j], RatInt(Sum(column(xs, j))))])),
           Rat(1, Len(xs)))

LeastSquaresWithIntercept(xs, ys, b) ==
    /\ Len(b) = Len(xs[1])
    /\ OrthogonalToConstant(xs, ys, InterceptOf(xs, ys, b), b)
    /\ OrthogonalToColumns(xs, ys, InterceptOf(xs, ys, b), b)

\* C12 (as stated): the coefficients of every fit are those of the least-squares
\* fit of y on X' alone, with no intercept.
C12_NoIntercept ==
    fitted.done => LeastSquaresWithoutIntercept(fitted.x, fitted.y, fitted.coef)

\* C12 (amended): the coefficients of every fit are the slopes of the
\* least-squares fit of y on X' and a constant column: an intercept is estimated
\* alongside them and is not returned.
C12_SlopesOfFitWithIntercept ==
    fitted.done => LeastSquaresWithIntercept(fitted.x, fitted.y, fitted.coef)

\* A fit of two parameters on two observations whose slopes do not solve the
\* normal equations without intercept, and whose intercept is not zero.
C12_Witness ==
    /\ fitted.done
    /\ Len(true_params) = 2 /\ n_obs = 2
    /\ LeastSquaresWithIntercept(fitted.x, fitted.y, fitted.coef)
    /\ ~LeastSquaresWithoutIntercept(fitted.x, fitted.y, fitted.coef)
    /\ InterceptOf(fitted.x, fitted.y, fitted.coef) # RatInt(0)

\* The trial the loop body is working on was sampled in the current noise
\* level under the current covariance matrix, and, once injected, with the
\* current level's meas_sd.
ThisLevel(t) ==
    /\ t.level = level
    /\ t.cov = cov
    /\ t.injected
    /\ t.meas_sd = meas_sds[level]

\* C13: whenever the aggregation of a noise level runs, estimates holds exactly
\* n_repetitions coefficient vectors, each fitted on a trial sampled in that
\* level under that level's covariance matrix and error-injected with that
\* level's meas_sd; the covariance matrix was generated once per level, and
\* the sample handed to the estimator is always one of the current level.
C13_EstimatesOfOneLevel ==
    /\ pc = "Aggregating" =>
            /\ Len(estimates) = n_repetitions
            /\ Len(origin) = Len(estimates)
            /\ \A r \in DOMAIN origin : ThisLevel(origin[r])
            /\ \A r \in DOMAIN estimates : Len(estimates[r]) = Len(true_params)
            /\ n_cov = level
            /\ n_trials = level * n_repetitions
    /\ pc = "Estimating" => ThisLevel(sampled_under)
    /\ pc = "Injecting" => sampled_under.level = level /\ sampled_under.cov = cov

\* The aggregation of the second of two different noise levels, two
\* repetitions each, with a covariance matrix drawn afresh for each level.
C13_Witness ==
    /\ pc = "Aggregating"
    /\ level = 2 /\ n_repetitions = 2
    /\ cov_type = "random"
    /\ meas_sds[1] # meas_sds[2]
    /\ Len(estimates) = 2
    /\ n_trials = 4

====
